---- MODULE Spec2Model ----
(***************************************************************************)
(* The city-graph model (graph.py) and the searches over it: BFS and DFS   *)
(* (bfs_dfs.py), uniform-cost search and its greedy multi-goal extension   *)
(* (ucs.py), A* (astar.py) and minimax (minimax.py).                       *)
(*                                                                         *)
(* A Python dict is a function whose DOMAIN is its key set; a list is a    *)
(* sequence; heapq's heap is the set of its entries, popped in the order   *)
(* Python compares the entry tuples.                                       *)
(***************************************************************************)
EXTENDS Integers, Sequences, FiniteSets, TLC

\* ------------------------------------------------------------------------
\* Bounds of the model
\* ------------------------------------------------------------------------
Nodes == {"A", "B", "C", "D"}      \* node identifiers of the search graphs
MaxEdges == 4                      \* distinct edges a graph is built up to
Costs == {0, 1, 2}                 \* edge costs

VARIABLES
    adjacency_list,      \* Graph.adjacency_list: dict node -> list of neighbors
    weighted_adjacency,  \* WeightedGraph.weighted_adjacency: dict node -> list of (neighbor, cost)
    edges_added,         \* history: unordered pairs passed to add_edge so far
    first_cost,          \* history: unordered pair -> cost of its first add_weighted_edge
    last,                \* history: the last construction call
    query,               \* the search call being served: component and arguments
    result,              \* the value that call returned
    raised,              \* the exception that call raised instead, "none" if it returned
    frame,               \* the locals of a MultiGoalUCS.search call inside its while loop
    game_tree            \* the GameNode objects constructed, the first being the root

graph == <<adjacency_list, weighted_adjacency>>
history == <<edges_added, first_cost, last>>
search == <<query, result, raised>>
aside == <<frame, game_tree>>
vars == <<adjacency_list, weighted_adjacency, edges_added, first_cost, last,
          query, result, raised, frame, game_tree>>

Range(s) == {s[i] : i \in 1..Len(s)}

\* ------------------------------------------------------------------------
\* graph.py: Graph and WeightedGraph
\* ------------------------------------------------------------------------
add_node(adj, node) ==
    IF node \in DOMAIN adj THEN adj
    ELSE [m \in DOMAIN adj \cup {node} |-> IF m = node THEN <<>> ELSE adj[m]]

\* Mutant of add_edge: the reverse entry is forgotten.
add_edge_one_way(adj, node1, node2) ==
    LET adj1 == add_node(add_node(adj, node1), node2)
    IN  IF node2 \notin Range(adj1[node1])
        THEN [adj1 EXCEPT ![node1] = Append(@, node2)] ELSE adj1

add_edge(adj, node1, node2) ==
    LET adj1 == add_node(add_node(adj, node1), node2)
        adj2 == IF node2 \notin Range(adj1[node1])
                THEN [adj1 EXCEPT ![node1] = Append(@, node2)] ELSE adj1
    IN  IF node1 \notin Range(adj2[node2])
        THEN [adj2 EXCEPT ![node2] = Append(@, node1)] ELSE adj2

\* any(neighbor == node for neighbor, _ in entries)
HasNeighbor(entries, node) == \E i \in 1..Len(entries) : entries[i][1] = node

\* Mutant of add_weighted_edge: the duplicate test compares (neighbor, cost).
add_weighted_edge_by_entry(wadj, node1, node2, cost) ==
    LET w1 == add_node(add_node(wadj, node1), node2)
        w2 == IF <<node2, cost>> \notin Range(w1[node1])
              THEN [w1 EXCEPT ![node1] = Append(@, <<node2, cost>>)] ELSE w1
    IN  IF <<node1, cost>> \notin Range(w2[node2])
        THEN [w2 EXCEPT ![node2] = Append(@, <<node1, cost>>)] ELSE w2

\* The weighted half of add_weighted_edge (its first statement is add_edge).
add_weighted_edge(wadj, node1, node2, cost) ==
    LET w1 == add_node(add_node(wadj, node1), node2)
        w2 == IF ~HasNeighbor(w1[node1], node2)
              THEN [w1 EXCEPT ![node1] = Append(@, <<node2, cost>>)] ELSE w1
    IN  IF ~HasNeighbor(w2[node2], node1)
        THEN [w2 EXCEPT ![node2] = Append(@, <<node1, cost>>)] ELSE w2

get_neighbors(adj, node) == IF node \in DOMAIN adj THEN adj[node] ELSE <<>>

get_weighted_neighbors(wadj, node) == IF node \in DOMAIN wadj THEN wadj[node] ELSE <<>>

\* None, as a number no cost of the model equals
NoCost == -1

\* The cost of the first entry for node2 in node1's list, None when there is none.
get_cost(wadj, node1, node2) ==
    LET neighbors == get_weighted_neighbors(wadj, node1)
        hits == {i \in 1..Len(neighbors) : neighbors[i][1] = node2}
    IN  IF hits = {} THEN NoCost
        ELSE neighbors[CHOOSE i \in hits : \A j \in hits : i <= j][2]

\* dict[key] = value
Put(d, key, value) == [k \in DOMAIN d \cup {key} |-> IF k = key THEN value ELSE d[k]]

\* ------------------------------------------------------------------------
\* bfs_dfs.py: TravelEthiopiaSearch
\* ------------------------------------------------------------------------
\* SearchResult(path, success): path or [], success
SearchResult(path, success) == [path |-> path, success |-> success]

\* Mutant of bfs_for: path.append(neighbor) in place of path + [neighbor], so
\* the later neighbors inherit the earlier ones.
RECURSIVE bfs_for_shared_path(_, _, _, _, _)
bfs_for_shared_path(nbrs, i, path, goal, st) ==
    IF i > Len(nbrs) THEN st
    ELSE LET neighbor == nbrs[i]
             new_path == Append(path, neighbor)
         IN  IF neighbor \notin st.visited
             THEN IF neighbor = goal
                  THEN [st EXCEPT !.done = TRUE, !.result = SearchResult(new_path, TRUE)]
                  ELSE bfs_for_shared_path(nbrs, i + 1, new_path, goal,
                               [st EXCEPT !.visited = @ \cup {neighbor},
                                          !.queue = Append(@, <<neighbor, new_path>>)])
             ELSE bfs_for_shared_path(nbrs, i + 1, path, goal, st)

\* The for loop of _breadth_first_search over the neighbors of the dequeued
\* node, from index i on; st is the loop state [queue, visited, done, result].
RECURSIVE bfs_for(_, _, _, _, _)
bfs_for(nbrs, i, path, goal, st) ==
    IF i > Len(nbrs) THEN st
    ELSE LET neighbor == nbrs[i]
             new_path == Append(path, neighbor)
         IN  IF neighbor \notin st.visited
             THEN IF neighbor = goal
                  THEN [st EXCEPT !.done = TRUE, !.result = SearchResult(new_path, TRUE)]
                  ELSE bfs_for(nbrs, i + 1, path, goal,
                               [st EXCEPT !.visited = @ \cup {neighbor},
                                          !.queue = Append(@, <<neighbor, new_path>>)])
             ELSE bfs_for(nbrs, i + 1, path, goal, st)

\* One iteration of "while queue" (the exit of the loop when the queue is empty).
bfs_step(adj, goal, st) ==
    IF st.queue = <<>>
    THEN [st EXCEPT !.done = TRUE, !.result = SearchResult(<<>>, FALSE)]
    ELSE LET current == Head(st.queue)[1]
             path == Head(st.queue)[2]
         IN  bfs_for(get_neighbors(adj, current), 1, path, goal,
                     [st EXCEPT !.queue = Tail(@)])

\* The early returns of _breadth_first_search and the state before its loop.
bfs_start(adj, initial, goal) ==
    LET st0 == [queue |-> <<>>, visited |-> {}, done |-> TRUE,
                result |-> SearchResult(<<>>, FALSE)]
    IN  IF initial \notin DOMAIN adj THEN st0
        ELSE IF goal \notin DOMAIN adj THEN st0
        ELSE IF initial = goal THEN [st0 EXCEPT !.result = SearchResult(<<initial>>, TRUE)]
        ELSE [st0 EXCEPT !.queue = <<<<initial, <<initial>>>>>>, !.visited = {initial},
                         !.done = FALSE]

RECURSIVE bfs_run(_, _, _)
bfs_run(adj, goal, st) ==
    IF st.done THEN st.result ELSE bfs_run(adj, goal, bfs_step(adj, goal, st))

breadth_first_search(adj, initial, goal) == bfs_run(adj, goal, bfs_start(adj, initial, goal))

\* Mutant of dfs_for: the neighbors are pushed in stored order, so the last
\* stored neighbor is on top of the stack.
RECURSIVE dfs_for_stored_order(_, _, _, _)
dfs_for_stored_order(nbrs, i, path, st) ==
    IF i < 1 THEN st
    ELSE LET neighbor == nbrs[Len(nbrs) - i + 1]
         IN  IF neighbor \notin st.visited
             THEN dfs_for_stored_order(nbrs, i - 1, path,
                          [st EXCEPT !.stack = Append(@, <<neighbor, Append(path, neighbor)>>)])
             ELSE dfs_for_stored_order(nbrs, i - 1, path, st)

\* The for loop of _depth_first_search over reversed(neighbors): index i down to 1.
RECURSIVE dfs_for(_, _, _, _)
dfs_for(nbrs, i, path, st) ==
    IF i < 1 THEN st
    ELSE LET neighbor == nbrs[i]
         IN  IF neighbor \notin st.visited
             THEN dfs_for(nbrs, i - 1, path,
                          [st EXCEPT !.stack = Append(@, <<neighbor, Append(path, neighbor)>>)])
             ELSE dfs_for(nbrs, i - 1, path, st)

\* Mutant of dfs_step: the top of the stack is read without being popped, so
\* an entry of a visited node stays on the stack.
dfs_step_peek(adj, goal, st) ==
    IF st.stack = <<>>
    THEN [st EXCEPT !.done = TRUE, !.result = SearchResult(<<>>, FALSE)]
    ELSE LET top == st.stack[Len(st.stack)]
             current == top[1]
             path == top[2]
             popped == [st EXCEPT !.stack = SubSeq(@, 1, Len(@) - 1)]
         IN  IF current \in st.visited THEN st
             ELSE IF current = goal
                  THEN [popped EXCEPT !.visited = @ \cup {current}, !.done = TRUE,
                                      !.result = SearchResult(path, TRUE)]
                  ELSE LET nbrs == get_neighbors(adj, current)
                       IN  dfs_for(nbrs, Len(nbrs), path,
                                   [popped EXCEPT !.visited = @ \cup {current}])

\* One iteration of "while stack"; st is [stack, visited, done, result].
dfs_step(adj, goal, st) ==
    IF st.stack = <<>>
    THEN [st EXCEPT !.done = TRUE, !.result = SearchResult(<<>>, FALSE)]
    ELSE LET top == st.stack[Len(st.stack)]
             current == top[1]
             path == top[2]
             popped == [st EXCEPT !.stack = SubSeq(@, 1, Len(@) - 1)]
         IN  IF current \in st.visited THEN popped
             ELSE IF current = goal
                  THEN [popped EXCEPT !.visited = @ \cup {current}, !.done = TRUE,
                                      !.result = SearchResult(path, TRUE)]
                  ELSE LET nbrs == get_neighbors(adj, current)
                       IN  dfs_for(nbrs, Len(nbrs), path,
                                   [popped EXCEPT !.visited = @ \cup {current}])

dfs_start(adj, initial, goal) ==
    LET st0 == [stack |-> <<>>, visited |-> {}, done |-> TRUE,
                result |-> SearchResult(<<>>, FALSE)]
    IN  IF initial \notin DOMAIN adj THEN st0
        ELSE IF goal \notin DOMAIN adj THEN st0
        ELSE IF initial = goal THEN [st0 EXCEPT !.result = SearchResult(<<initial>>, TRUE)]
        ELSE [st0 EXCEPT !.stack = <<<<initial, <<initial>>>>>>, !.done = FALSE]

RECURSIVE dfs_run(_, _, _)
dfs_run(adj, goal, st) ==
    IF st.done THEN st.result ELSE dfs_run(adj, goal, dfs_step(adj, goal, st))

depth_first_search(adj, initial, goal) == dfs_run(adj, goal, dfs_start(adj, initial, goal))

\* str.lower() on the strategy names the callers are modelled to pass.
Strategies == {"bfs", "BFS", "dfs", "Dfs", "ucs", ""}
Lower(strategy) ==
    CASE strategy = "BFS" -> "bfs"
      [] strategy = "Dfs" -> "dfs"
      [] OTHER -> strategy

\* Mutant of travel_search: the strategy is compared as given, without lower().
travel_search_case_sensitive(adj, initial, goal, strategy) ==
    IF strategy = "bfs"
    THEN [raised |-> "none", value |-> breadth_first_search(adj, initial, goal)]
    ELSE IF strategy = "dfs"
    THEN [raised |-> "none", value |-> depth_first_search(adj, initial, goal)]
    ELSE [raised |-> "ValueError", value |-> <<>>]

\* TravelEthiopiaSearch.search: [raised, value]
travel_search(adj, initial, goal, strategy) ==
    LET lowered == Lower(strategy)
    IN  IF lowered = "bfs"
        THEN [raised |-> "none", value |-> breadth_first_search(adj, initial, goal)]
        ELSE IF lowered = "dfs"
        THEN [raised |-> "none", value |-> depth_first_search(adj, initial, goal)]
        ELSE [raised |-> "ValueError", value |-> <<>>]

\* ------------------------------------------------------------------------
\* ucs.py: UniformCostSearch
\* ------------------------------------------------------------------------
\* UCSResult(path, total_cost, success); the defaults are [], 0, False
UCSResult(path, total_cost, success) ==
    [path |-> path, total_cost |-> total_cost, success |-> success]

\* Mutant of ucs_less: the entries compared by insertion counter alone.
ucs_less_by_counter(e, f) == e[2] < f[2]

\* Python's order on the heap entries (cost, counter, node, path): the
\* counters of two entries always differ, so the first two fields decide.
ucs_less(e, f) == e[1] < f[1] \/ (e[1] = f[1] /\ e[2] < f[2])

\* heapq.heappop: the least entry
ucs_heappop(pq) == CHOOSE e \in pq : \A f \in pq \ {e} : ucs_less(e, f)

\* The element of a one-element set. In The({e(v) : v \in {value}}) a local
\* variable is assigned once: value is computed, then e with v bound to it.
The(S) == CHOOSE x \in S : TRUE

\* Mutant of ucs_for: a neighbor is queued at the cost of the edge to it, the
\* cost of the path so far being left out.
RECURSIVE ucs_for_edge_cost(_, _, _, _, _)
ucs_for_edge_cost(nbrs, i, current_cost, path, st) ==
    IF i > Len(nbrs) THEN st
    ELSE LET neighbor == nbrs[i][1]
             edge_cost == nbrs[i][2]
         IN  IF neighbor \notin DOMAIN st.visited
             THEN LET new_path == Append(path, neighbor)
                      counter == st.counter + 1
                  IN  ucs_for_edge_cost(nbrs, i + 1, current_cost, path,
                              [st EXCEPT !.counter = counter,
                                         !.pq = @ \cup {<<edge_cost, counter, neighbor, new_path>>}])
             ELSE ucs_for_edge_cost(nbrs, i + 1, current_cost, path, st)

\* The for loop of UniformCostSearch.search over (neighbor, edge_cost), from index i.
RECURSIVE ucs_for(_, _, _, _, _)
ucs_for(nbrs, i, current_cost, path, st) ==
    IF i > Len(nbrs) THEN st
    ELSE LET neighbor == nbrs[i][1]
             edge_cost == nbrs[i][2]
         IN  IF neighbor \notin DOMAIN st.visited
             THEN LET new_cost == current_cost + edge_cost
                      new_path == Append(path, neighbor)
                      counter == st.counter + 1
                  IN  ucs_for(nbrs, i + 1, current_cost, path,
                              [st EXCEPT !.counter = counter,
                                         !.pq = @ \cup {<<new_cost, counter, neighbor, new_path>>}])
             ELSE ucs_for(nbrs, i + 1, current_cost, path, st)

\* Mutant of ucs_step: a popped entry is never tested against visited, so an
\* entry of a settled node settles it again.
ucs_step_no_stale_test(wadj, goal, st) ==
    IF st.pq = {}
    THEN [st EXCEPT !.done = TRUE, !.result = UCSResult(<<>>, 0, FALSE)]
    ELSE LET pop(e) ==
                 LET current_cost == e[1]
                     current_city == e[3]
                     path == e[4]
                     marked == [st EXCEPT !.pq = @ \ {e},
                                          !.visited = Put(@, current_city, current_cost)]
                 IN  IF current_city = goal
                     THEN [marked EXCEPT !.done = TRUE,
                                         !.result = UCSResult(path, current_cost, TRUE)]
                     ELSE The({ucs_for(get_weighted_neighbors(wadj, current_city), 1,
                                       current_cost, path, m) : m \in {marked}})
         IN  The({pop(e) : e \in {ucs_heappop(st.pq)}})

\* One iteration of "while pq"; st is [pq, visited, counter, done, result].
ucs_step(wadj, goal, st) ==
    IF st.pq = {}
    THEN [st EXCEPT !.done = TRUE, !.result = UCSResult(<<>>, 0, FALSE)]
    ELSE LET pop(e) ==
                 LET current_cost == e[1]
                     current_city == e[3]
                     path == e[4]
                     popped == [st EXCEPT !.pq = @ \ {e}]
                 IN  IF current_city \in DOMAIN st.visited /\ st.visited[current_city] <= current_cost
                     THEN popped
                     ELSE LET marked == [popped EXCEPT !.visited = Put(@, current_city, current_cost)]
                          IN  IF current_city = goal
                              THEN [marked EXCEPT !.done = TRUE,
                                                  !.result = UCSResult(path, current_cost, TRUE)]
                              ELSE The({ucs_for(get_weighted_neighbors(wadj, current_city),
                                                1, current_cost, path, m) : m \in {marked}})
         IN  The({pop(e) : e \in {ucs_heappop(st.pq)}})

\* Mutant of ucs_start: initial == goal is tested before the membership tests.
ucs_start_equal_first(wadj, initial, goal) ==
    LET st0 == [pq |-> {}, visited |-> <<>>, counter |-> 0, done |-> TRUE,
                result |-> [path |-> <<>>, total_cost |-> 0, success |-> FALSE]]
    IN  IF initial = goal
        THEN [st0 EXCEPT !.result = [path |-> <<initial>>, total_cost |-> 0,
                                     success |-> TRUE]]
        ELSE IF initial \notin DOMAIN wadj \/ goal \notin DOMAIN wadj THEN st0
        ELSE [st0 EXCEPT !.pq = {<<0, 0, initial, <<initial>>>>}, !.done = FALSE]

ucs_start(wadj, initial, goal) ==
    LET st0 == [pq |-> {}, visited |-> <<>>, counter |-> 0, done |-> TRUE,
                result |-> UCSResult(<<>>, 0, FALSE)]
    IN  IF initial \notin DOMAIN wadj THEN st0
        ELSE IF goal \notin DOMAIN wadj THEN st0
        ELSE IF initial = goal THEN [st0 EXCEPT !.result = UCSResult(<<initial>>, 0, TRUE)]
        ELSE [st0 EXCEPT !.pq = {<<0, 0, initial, <<initial>>>>}, !.done = FALSE]

RECURSIVE ucs_run(_, _, _)
ucs_run(wadj, goal, st) ==
    IF st.done THEN st.result
    ELSE The({ucs_run(wadj, goal, next) : next \in {ucs_step(wadj, goal, st)}})

ucs_search(wadj, initial, goal) == ucs_run(wadj, goal, ucs_start(wadj, initial, goal))

\* ------------------------------------------------------------------------
\* astar.py: AStarSearch
\* ------------------------------------------------------------------------
AStarResult(path, total_cost, success) ==
    [path |-> path, total_cost |-> total_cost, success |-> success]

\* self.heuristics.get(node, 0)
get_heuristic(heuristics, node) == IF node \in DOMAIN heuristics THEN heuristics[node] ELSE 0

\* Python's order on the heap entries (f, g, counter, node, path): f, then g,
\* then the counter, which differs between any two entries.
astar_less(e, f) ==
    \/ e[1] < f[1]
    \/ e[1] = f[1] /\ e[2] < f[2]
    \/ e[1] = f[1] /\ e[2] = f[2] /\ e[3] < f[3]

astar_heappop(pq) == CHOOSE e \in pq : \A f \in pq \ {e} : astar_less(e, f)

\* Mutant of astar_for: a node already in g_scores is never queued again.
RECURSIVE astar_for_closed(_, _, _, _, _, _)
astar_for_closed(heuristics, nbrs, i, g_value, path, st) ==
    IF i > Len(nbrs) THEN st
    ELSE LET neighbor == nbrs[i][1]
             tentative_g == g_value + nbrs[i][2]
             counter == st.counter + 1
         IN  IF neighbor \notin DOMAIN st.g_scores
             THEN astar_for_closed(heuristics, nbrs, i + 1, g_value, path,
                      [st EXCEPT !.g_scores = Put(@, neighbor, tentative_g),
                                 !.counter = counter,
                                 !.pq = @ \cup {<<tentative_g + get_heuristic(heuristics, neighbor),
                                                  tentative_g, counter, neighbor,
                                                  Append(path, neighbor)>>}])
             ELSE astar_for_closed(heuristics, nbrs, i + 1, g_value, path, st)

\* The for loop of AStarSearch.search over (neighbor, edge_cost), from index i.
RECURSIVE astar_for(_, _, _, _, _, _)
astar_for(heuristics, nbrs, i, g_value, path, st) ==
    IF i > Len(nbrs) THEN st
    ELSE LET neighbor == nbrs[i][1]
             edge_cost == nbrs[i][2]
             tentative_g == g_value + edge_cost
         IN  IF neighbor \notin DOMAIN st.g_scores \/ tentative_g < st.g_scores[neighbor]
             THEN LET f_neighbor == tentative_g + get_heuristic(heuristics, neighbor)
                      new_path == Append(path, neighbor)
                      counter == st.counter + 1
                  IN  astar_for(heuristics, nbrs, i + 1, g_value, path,
                                [st EXCEPT !.g_scores = Put(@, neighbor, tentative_g),
                                           !.counter = counter,
                                           !.pq = @ \cup {<<f_neighbor, tentative_g, counter,
                                                            neighbor, new_path>>}])
             ELSE astar_for(heuristics, nbrs, i + 1, g_value, path, st)

\* One iteration of "while pq"; st is [pq, g_scores, counter, done, result].
astar_step(wadj, heuristics, goal, st) ==
    IF st.pq = {}
    THEN [st EXCEPT !.done = TRUE, !.result = AStarResult(<<>>, 0, FALSE)]
    ELSE LET e == astar_heappop(st.pq)
             g_value == e[2]
             current == e[4]
             path == e[5]
             popped == [st EXCEPT !.pq = @ \ {e}]
         IN  IF current \in DOMAIN st.g_scores /\ g_value > st.g_scores[current]
             THEN popped
             ELSE IF current = goal
                  THEN [popped EXCEPT !.done = TRUE,
                                      !.result = AStarResult(path, g_value, TRUE)]
                  ELSE astar_for(heuristics, get_weighted_neighbors(wadj, current), 1,
                                 g_value, path, popped)

astar_start(wadj, heuristics, initial, goal) ==
    LET st0 == [pq |-> {}, g_scores |-> <<>>, counter |-> 0, done |-> TRUE,
                result |-> AStarResult(<<>>, 0, FALSE)]
    IN  IF initial \notin DOMAIN wadj THEN st0
        ELSE IF goal \notin DOMAIN wadj THEN st0
        ELSE IF initial = goal THEN [st0 EXCEPT !.result = AStarResult(<<initial>>, 0, TRUE)]
        ELSE [st0 EXCEPT !.pq = {<<get_heuristic(heuristics, initial), 0, 0,
                                   initial, <<initial>>>>},
                         !.g_scores = Put(<<>>, initial, 0), !.done = FALSE]

RECURSIVE astar_run(_, _, _, _)
astar_run(wadj, heuristics, goal, st) ==
    IF st.done THEN st.result
    ELSE astar_run(wadj, heuristics, goal, astar_step(wadj, heuristics, goal, st))

astar_search(wadj, heuristics, initial, goal) ==
    astar_run(wadj, heuristics, goal, astar_start(wadj, heuristics, initial, goal))

\* ------------------------------------------------------------------------
\* ucs.py: MultiGoalUCS
\* ------------------------------------------------------------------------
\* float('inf'): above every total cost the model can produce
Inf == 1000

\* Python's None where a result or a goal is expected
None == "None"

\* Mutant of multi_goal_for: the first goal found reachable is kept.
RECURSIVE multi_goal_for_first_found(_, _, _, _, _)
multi_goal_for_first_found(wadj, current_location, order, i, st) ==
    IF i > Len(order) THEN st
    ELSE LET goal == order[i]
             res == ucs_search(wadj, current_location, goal)
         IN  multi_goal_for_first_found(wadj, current_location, order, i + 1,
                 IF res.success /\ st.best_goal = None
                 THEN [best_result |-> <<res>>, best_goal |-> goal,
                       best_cost |-> res.total_cost]
                 ELSE st)

\* "for goal in unvisited_goals", from index i of the order in which the set
\* is iterated; st is [best_result, best_goal, best_cost], best_result being
\* <<>> for None and <<r>> for the result r.
RECURSIVE multi_goal_for(_, _, _, _, _)
multi_goal_for(wadj, current_location, order, i, st) ==
    IF i > Len(order) THEN st
    ELSE LET goal == order[i]
             kept(res) == IF res.success /\ res.total_cost < st.best_cost
                          THEN [best_result |-> <<res>>, best_goal |-> goal,
                                best_cost |-> res.total_cost]
                          ELSE st
         IN  The({multi_goal_for(wadj, current_location, order, i + 1, kept(res)) :
                  res \in {ucs_search(wadj, current_location, goal)}})

\* The dict MultiGoalUCS.search returns, from its locals.
multi_goal_dict(st, success) ==
    [complete_path |-> st.complete_path, total_cost |-> st.total_cost,
     visit_order |-> st.visit_order, success |-> success]

\* The locals of MultiGoalUCS.search before its while loop.
multi_goal_start(initial, goals) ==
    [unvisited_goals |-> Range(goals), current_location |-> initial,
     complete_path |-> <<initial>>, total_cost |-> 0, visit_order |-> <<>>]

\* One iteration of "while unvisited_goals" on the locals st, the set being
\* iterated in the given order: [returned, value, locals].
multi_goal_round(wadj, order, st) ==
    LET after(best) ==
            IF best.best_result = <<>>
            THEN [returned |-> TRUE, value |-> multi_goal_dict(st, FALSE), locals |-> st]
            ELSE LET next == [unvisited_goals |-> st.unvisited_goals \ {best.best_goal},
                              current_location |-> best.best_goal,
                              complete_path |-> st.complete_path \o Tail(best.best_result[1].path),
                              total_cost |-> st.total_cost + best.best_cost,
                              visit_order |-> Append(st.visit_order, best.best_goal)]
                 IN  IF next.unvisited_goals = {}
                     THEN [returned |-> TRUE, value |-> multi_goal_dict(next, TRUE),
                           locals |-> next]
                     ELSE [returned |-> FALSE, value |-> <<>>, locals |-> next]
    IN  The({after(best) :
             best \in {multi_goal_for(wadj, st.current_location, order, 1,
                                      [best_result |-> <<>>, best_goal |-> None,
                                       best_cost |-> Inf])}})

\* The orders in which a set can be iterated.
Orders(S) == {order \in [1..Cardinality(S) -> S] : Range(order) = S}

\* ------------------------------------------------------------------------
\* minimax.py: GameNode and MiniMax
\* ------------------------------------------------------------------------
\* utility=None, the default of GameNode
NoUtility == -1

\* GameNode(name, player, utility); a node is referred to by its index in the
\* sequence of the nodes constructed, children holding such indices.
GameNode(name, player, utility) ==
    [name |-> name, player |-> player, children |-> <<>>, utility |-> utility,
     is_terminal |-> utility # NoUtility]

\* tree[node].add_child(child)
add_child(tree, node, child) == [tree EXCEPT ![node].children = Append(@, child)]

RECURSIVE minimax(_, _, _)

\* Mutant of max_for: a later child of equal value replaces the best one.
RECURSIVE max_for_last_wins(_, _, _, _, _)
max_for_last_wins(tree, children, i, current_path, st) ==
    IF i > Len(children) THEN st
    ELSE LET sub == minimax(tree, children[i], current_path)
             counted == [st EXCEPT !.nodes_evaluated = @ + sub.nodes_evaluated]
         IN  max_for_last_wins(tree, children, i + 1, current_path,
                 IF sub.best_value >= st.best_value
                 THEN [counted EXCEPT !.best_value = sub.best_value,
                                      !.best_path = sub.best_path]
                 ELSE counted)

\* "for child in node.children" of the MAX branch, from index i; st is
\* [best_value, best_path, nodes_evaluated].
RECURSIVE max_for(_, _, _, _, _)
max_for(tree, children, i, current_path, st) ==
    IF i > Len(children) THEN st
    ELSE LET sub == minimax(tree, children[i], current_path)
             counted == [st EXCEPT !.nodes_evaluated = @ + sub.nodes_evaluated]
         IN  max_for(tree, children, i + 1, current_path,
                 IF sub.best_value > st.best_value
                 THEN [counted EXCEPT !.best_value = sub.best_value,
                                      !.best_path = sub.best_path]
                 ELSE counted)

\* "for child in node.children" of the MIN branch.
RECURSIVE min_for(_, _, _, _, _)
min_for(tree, children, i, current_path, st) ==
    IF i > Len(children) THEN st
    ELSE LET sub == minimax(tree, children[i], current_path)
             counted == [st EXCEPT !.nodes_evaluated = @ + sub.nodes_evaluated]
         IN  min_for(tree, children, i + 1, current_path,
                 IF sub.best_value < st.best_value
                 THEN [counted EXCEPT !.best_value = sub.best_value,
                                      !.best_path = sub.best_path]
                 ELSE counted)

\* MiniMax._minimax(node, path, depth, verbose): (best_value, best_path), with
\* the number of calls made, which the solver adds to nodes_evaluated.
minimax(tree, node, path) ==
    LET current_path == Append(path, tree[node].name)
    IN  IF tree[node].is_terminal
        THEN [best_value |-> tree[node].utility, best_path |-> current_path,
              nodes_evaluated |-> 1]
        ELSE IF tree[node].player = "MAX"
        THEN max_for(tree, tree[node].children, 1, current_path,
                     [best_value |-> -Inf, best_path |-> current_path,
                      nodes_evaluated |-> 1])
        ELSE min_for(tree, tree[node].children, 1, current_path,
                     [best_value |-> Inf, best_path |-> current_path,
                      nodes_evaluated |-> 1])

\* MiniMax().search(root): the MiniMaxResult, beside the solver's
\* nodes_evaluated (the decision_tree text is a rendering of the tree).
minimax_search(tree, root) == minimax(tree, root, <<>>)

\* The activation of a call _minimax(node, path, ...): its current_path, the
\* index i of the child its for loop is at, and its best_value and best_path.
minimax_call(tree, node, path) ==
    LET current_path == Append(path, tree[node].name)
    IN  [node |-> node, current_path |-> current_path, i |-> 1,
         best_value |-> IF tree[node].player = "MAX" THEN -Inf ELSE Inf,
         best_path |-> current_path]

\* A call returns (value, child_path) to the activation below it on the call
\* stack, whose for loop compares it and moves on; the return of the first
\* call is the result of the search. st is [stack, nodes_evaluated, done,
\* result].
minimax_return(tree, st, value, child_path) ==
    LET rest == SubSeq(st.stack, 1, Len(st.stack) - 1)
    IN  IF rest = <<>>
        THEN [st EXCEPT !.stack = rest, !.done = TRUE,
                        !.result = [best_value |-> value, best_path |-> child_path,
                                    nodes_evaluated |-> st.nodes_evaluated]]
        ELSE LET caller == rest[Len(rest)]
                 better == IF tree[caller.node].player = "MAX"
                           THEN value > caller.best_value
                           ELSE value < caller.best_value
                 resumed == [caller EXCEPT
                                !.i = @ + 1,
                                !.best_value = IF better THEN value ELSE @,
                                !.best_path = IF better THEN child_path ELSE @]
             IN  [st EXCEPT !.stack = [rest EXCEPT ![Len(rest)] = resumed]]

\* One step of the recursion of _minimax: the activation on top of the call
\* stack returns (a terminal node, or a for loop that is over) or calls
\* _minimax on its next child.
minimax_step(tree, st) ==
    LET top == st.stack[Len(st.stack)]
        children == tree[top.node].children
    IN  IF tree[top.node].is_terminal
        THEN minimax_return(tree, st, tree[top.node].utility, top.current_path)
        ELSE IF top.i <= Len(children)
        THEN [st EXCEPT !.stack = Append(@, minimax_call(tree, children[top.i],
                                                         top.current_path)),
                        !.nodes_evaluated = @ + 1]
        ELSE minimax_return(tree, st, top.best_value, top.best_path)

\* MiniMax.search at its call of _minimax(root, [], 0, verbose).
minimax_start(tree, root) ==
    [stack |-> <<minimax_call(tree, root, <<>>)>>, nodes_evaluated |-> 1,
     done |-> FALSE, result |-> <<>>]

\* ------------------------------------------------------------------------
\* Reference notions the claims are stated against (not code)
\* ------------------------------------------------------------------------
\* The simple paths (no node twice) that extend the path p along nb, where
\* nb[n] is the set of neighbors of n.
RECURSIVE SimplePathsFrom(_, _)
SimplePathsFrom(nb, p) ==
    {p} \cup UNION {SimplePathsFrom(nb, Append(p, m)) : m \in nb[p[Len(p)]] \ Range(p)}

\* The simple paths from start to goal along the entries of an adjacency dict.
PathsBetween(adj, start, goal) ==
    LET nb == [n \in Nodes |-> Range(get_neighbors(adj, n))]
    IN  {p \in SimplePathsFrom(nb, <<start>>) : p[Len(p)] = goal}

\* The same along the entries of a weighted adjacency dict.
WeightedPathsBetween(wadj, start, goal) ==
    LET nb == [n \in Nodes |-> {e[1] : e \in Range(get_weighted_neighbors(wadj, n))}]
    IN  {p \in SimplePathsFrom(nb, <<start>>) : p[Len(p)] = goal}

RECURSIVE PathCost(_, _)
PathCost(wadj, p) ==
    IF Len(p) < 2 THEN 0
    ELSE get_cost(wadj, p[1], p[2]) + PathCost(wadj, Tail(p))

SetMin(S) == CHOOSE x \in S : \A y \in S : x <= y

\* The least total cost of a path from start to goal (defined when one exists).
ShortestCost(wadj, start, goal) ==
    SetMin({PathCost(wadj, p) : p \in WeightedPathsBetween(wadj, start, goal)})

\* The least number of edges of a path from start to goal (defined when one exists).
MinEdgeCount(adj, start, goal) ==
    SetMin({Len(p) - 1 : p \in PathsBetween(adj, start, goal)})

\* ------------------------------------------------------------------------
\* State machine
\* ------------------------------------------------------------------------
NoQuery == [alg |-> "none", strategy |-> "", initial |-> "", goal |-> "", heuristics |-> <<>>,
            goals |-> <<>>]
NoResult == <<>>
NoFrame == [running |-> FALSE,
            locals |-> [unvisited_goals |-> {}, current_location |-> "",
                        complete_path |-> <<>>, total_cost |-> 0, visit_order |-> <<>>]]
NoCall == [op |-> "none", readd |-> FALSE, varied |-> FALSE, changed |-> FALSE]

Init ==
    /\ adjacency_list = <<>>
    /\ weighted_adjacency = <<>>
    /\ edges_added = {}
    /\ first_cost = <<>>
    /\ last = NoCall
    /\ query = NoQuery
    /\ result = NoResult
    /\ raised = "none"
    /\ frame = NoFrame
    /\ game_tree = <<>>

\* No search result is held: the graph may be built further or searched
\* (the graph is not mutated while a search runs).
Idle == query.alg = "none"

\* graph.add_node(node)
AddNode(node) ==
    /\ Idle
    /\ adjacency_list' = add_node(adjacency_list, node)
    /\ UNCHANGED <<weighted_adjacency, search, aside>>

\* graph.add_edge(node1, node2)
AddEdge(node1, node2) ==
    /\ Idle
    /\ adjacency_list' = add_edge(adjacency_list, node1, node2)
    /\ UNCHANGED <<weighted_adjacency, search, aside>>

\* graph.add_weighted_edge(node1, node2, cost): add_edge, then the weighted lists
AddWeightedEdge(node1, node2, cost) ==
    /\ Idle
    /\ adjacency_list' = add_edge(adjacency_list, node1, node2)
    /\ weighted_adjacency' = add_weighted_edge(weighted_adjacency, node1, node2, cost)
    /\ UNCHANGED <<search, aside>>

\* History kept beside a construction call: the pairs inserted so far only.
Counted(node1, node2) ==
    /\ edges_added' = edges_added \cup {{node1, node2}}
    /\ UNCHANGED <<first_cost, last>>

\* TravelEthiopiaSearch(graph).search(initial, goal, strategy)
Search(initial, goal, strategy) ==
    /\ Idle
    /\ query' = [alg |-> "travel", strategy |-> strategy, initial |-> initial,
                 goal |-> goal, heuristics |-> <<>>, goals |-> <<>>]
    /\ LET out == travel_search(adjacency_list, initial, goal, strategy)
       IN  result' = out.value /\ raised' = out.raised
    /\ UNCHANGED <<graph, history, aside>>

\* UniformCostSearch(graph).search(initial, goal)
UCS(initial, goal) ==
    /\ Idle
    /\ query' = [alg |-> "ucs", strategy |-> "", initial |-> initial, goal |-> goal,
                 heuristics |-> <<>>, goals |-> <<>>]
    /\ result' = ucs_search(weighted_adjacency, initial, goal)
    /\ UNCHANGED <<graph, history, raised, aside>>

\* AStarSearch(graph, heuristics).search(initial, goal)
AStar(heuristics, initial, goal) ==
    /\ Idle
    /\ query' = [alg |-> "astar", strategy |-> "", initial |-> initial, goal |-> goal,
                 heuristics |-> heuristics, goals |-> <<>>]
    /\ result' = astar_search(weighted_adjacency, heuristics, initial, goal)
    /\ UNCHANGED <<graph, history, raised, aside>>

\* MultiGoalUCS(graph).search(initial, goals), up to the first test of its
\* while loop: with no goal it returns at once.
MultiGoal(initial, goals) ==
    /\ Idle
    /\ query' = [alg |-> "multi_goal", strategy |-> "", initial |-> initial, goal |-> "",
                 heuristics |-> <<>>, goals |-> goals]
    /\ LET st == multi_goal_start(initial, goals)
       IN  IF st.unvisited_goals = {}
           THEN result' = multi_goal_dict(st, TRUE) /\ frame' = NoFrame
           ELSE result' = NoResult /\ frame' = [running |-> TRUE, locals |-> st]
    /\ UNCHANGED <<graph, history, raised, game_tree>>

\* One iteration of the while loop of MultiGoalUCS.search, the set of the
\* unvisited goals being iterated in some order, up to the next test of the
\* loop or the return.
MultiGoalRound(order) ==
    /\ frame.running
    /\ \E out \in {multi_goal_round(weighted_adjacency, order, frame.locals)} :
           IF out.returned
           THEN result' = out.value /\ frame' = NoFrame
           ELSE result' = result /\ frame' = [running |-> TRUE, locals |-> out.locals]
    /\ UNCHANGED <<graph, history, query, raised, game_tree>>

\* root = GameNode(name, player, utility): the first node constructed
NewRoot(name, player, utility) ==
    /\ Idle
    /\ game_tree = <<>>
    /\ game_tree' = <<GameNode(name, player, utility)>>
    /\ UNCHANGED <<graph, history, search, frame>>

\* child = GameNode(name, player, utility); parent.add_child(child)
AddChild(parent, name, player, utility) ==
    /\ Idle
    /\ parent \in 1..Len(game_tree)
    /\ game_tree' = add_child(Append(game_tree, GameNode(name, player, utility)),
                              parent, Len(game_tree) + 1)
    /\ UNCHANGED <<graph, history, search, frame>>

\* MiniMax().search(root, verbose=False), root being the first node constructed
MiniMaxSearch ==
    /\ Idle
    /\ game_tree # <<>>
    /\ query' = [alg |-> "minimax", strategy |-> "", initial |-> "", goal |-> "",
                 heuristics |-> <<>>, goals |-> <<>>]
    /\ result' = minimax_search(game_tree, 1)
    /\ UNCHANGED <<graph, history, raised, aside>>

\* A search is at the test of its loop with the state st, or has returned.
Settle(st) ==
    IF st.done
    THEN result' = st.result /\ frame' = NoFrame
    ELSE result' = NoResult /\ frame' = [running |-> TRUE, locals |-> st]

\* TravelEthiopiaSearch(graph).search(initial, goal, strategy) with strategy
\* 'bfs' or 'dfs', up to the first test of the while loop
SearchBegin(initial, goal, strategy) ==
    /\ Idle
    /\ strategy \in {"bfs", "dfs"}
    /\ query' = [alg |-> "travel", strategy |-> strategy, initial |-> initial,
                 goal |-> goal, heuristics |-> <<>>, goals |-> <<>>]
    /\ Settle(IF strategy = "bfs"
              THEN bfs_start(adjacency_list, initial, goal)
              ELSE dfs_start(adjacency_list, initial, goal))
    /\ UNCHANGED <<graph, history, raised, game_tree>>

\* One iteration of the while loop of _breadth_first_search or _depth_first_search
SearchStep ==
    /\ frame.running
    /\ query.alg = "travel"
    /\ Settle(IF query.strategy = "bfs"
              THEN bfs_step(adjacency_list, query.goal, frame.locals)
              ELSE dfs_step(adjacency_list, query.goal, frame.locals))
    /\ UNCHANGED <<graph, history, query, raised, game_tree>>

\* UniformCostSearch(graph).search(initial, goal), up to the first test of the loop
UCSBegin(initial, goal) ==
    /\ Idle
    /\ query' = [alg |-> "ucs", strategy |-> "", initial |-> initial, goal |-> goal,
                 heuristics |-> <<>>, goals |-> <<>>]
    /\ Settle(ucs_start(weighted_adjacency, initial, goal))
    /\ UNCHANGED <<graph, history, raised, game_tree>>

\* One iteration of the while loop of UniformCostSearch.search
UCSStep ==
    /\ frame.running
    /\ query.alg = "ucs"
    /\ Settle(ucs_step(weighted_adjacency, query.goal, frame.locals))
    /\ UNCHANGED <<graph, history, query, raised, game_tree>>

\* AStarSearch(graph, heuristics).search(initial, goal), up to the first test of the loop
AStarBegin(heuristics, initial, goal) ==
    /\ Idle
    /\ query' = [alg |-> "astar", strategy |-> "", initial |-> initial, goal |-> goal,
                 heuristics |-> heuristics, goals |-> <<>>]
    /\ Settle(astar_start(weighted_adjacency, heuristics, initial, goal))
    /\ UNCHANGED <<graph, history, raised, game_tree>>

\* One iteration of the while loop of AStarSearch.search
AStarStep ==
    /\ frame.running
    /\ query.alg = "astar"
    /\ Settle(astar_step(weighted_adjacency, query.heuristics, query.goal, frame.locals))
    /\ UNCHANGED <<graph, history, query, raised, game_tree>>

\* MiniMax().search(root, verbose=False), up to its call of _minimax on the root
MiniMaxBegin ==
    /\ Idle
    /\ game_tree # <<>>
    /\ query' = [alg |-> "minimax", strategy |-> "", initial |-> "", goal |-> "",
                 heuristics |-> <<>>, goals |-> <<>>]
    /\ Settle(minimax_start(game_tree, 1))
    /\ UNCHANGED <<graph, history, raised, game_tree>>

\* One call or return of _minimax
MiniMaxStep ==
    /\ frame.running
    /\ query.alg = "minimax"
    /\ Settle(minimax_step(game_tree, frame.locals))
    /\ UNCHANGED <<graph, history, query, raised, game_tree>>

\* The caller drops the outcome it was handed.
Discard ==
    /\ ~Idle
    /\ ~frame.running
    /\ query' = NoQuery /\ result' = NoResult /\ raised' = "none"
    /\ UNCHANGED <<graph, history, aside>>

\* ------------------------------------------------------------------------
\* SpecGraph: a WeightedGraph under every construction call, with the last
\* call recorded
\* ------------------------------------------------------------------------
GraphNodes == {"A", "B", "C"}
MaxPairs == 2                      \* distinct unordered pairs joined by an edge
Weights == {1, 2}                  \* edge costs of the graphs under construction

\* The call only repeats a pair already inserted, or a further pair fits.
PairFits(node1, node2) ==
    {node1, node2} \in edges_added \/ Cardinality(edges_added) < MaxPairs

\* History kept beside a construction call in SpecGraph: the call itself,
\* whether the pair had been inserted by the same kind of call before
\* (readd), whether in the other orientation or with another cost (varied),
\* and whether the call changed what the graph stores.
Called(op, readd, varied) ==
    last' = [op |-> op, readd |-> readd, varied |-> varied,
             changed |-> \/ adjacency_list' # adjacency_list
                         \/ weighted_adjacency' # weighted_adjacency]

GraphNext ==
    \/ \E n \in GraphNodes :
          /\ AddNode(n)
          /\ Called("add_node", n \in DOMAIN adjacency_list, FALSE)
          /\ UNCHANGED <<edges_added, first_cost>>
    \/ \E a, b \in GraphNodes :
          /\ PairFits(a, b)
          /\ AddEdge(a, b)
          /\ edges_added' = edges_added \cup {{a, b}}
          /\ Called("add_edge", {a, b} \in edges_added, FALSE)
          /\ UNCHANGED first_cost
    \/ \E a, b \in GraphNodes, c \in Weights :
          /\ PairFits(a, b)
          /\ AddWeightedEdge(a, b, c)
          /\ edges_added' = edges_added \cup {{a, b}}
          /\ first_cost' = IF {a, b} \in DOMAIN first_cost THEN first_cost
                           ELSE Put(first_cost, {a, b}, <<a, b, c>>)
          /\ Called("add_weighted_edge", {a, b} \in DOMAIN first_cost,
                    /\ {a, b} \in DOMAIN first_cost
                    /\ first_cost[{a, b}][1] # a
                    /\ first_cost[{a, b}][3] # c)

SpecGraph == Init /\ [][GraphNext]_vars

\* ------------------------------------------------------------------------
\* Spec: a WeightedGraph under every construction call, searched by each of
\* the four pairwise searches
\* ------------------------------------------------------------------------
SomeHeuristics == UNION {[S -> {2}] : S \in SUBSET {"A", "B"}}
MaxJoined == 1                     \* distinct unordered pairs joined by an edge

Joinable(node1, node2) ==
    {node1, node2} \in edges_added \/ Cardinality(edges_added) < MaxJoined

Next ==
    \/ \E n \in GraphNodes : AddNode(n) /\ UNCHANGED history
    \/ \E a, b \in GraphNodes : Joinable(a, b) /\ AddEdge(a, b) /\ Counted(a, b)
    \/ \E a, b \in GraphNodes, c \in Costs :
          Joinable(a, b) /\ AddWeightedEdge(a, b, c) /\ Counted(a, b)
    \/ \E s, g \in GraphNodes, strategy \in Strategies : Search(s, g, strategy)
    \/ \E s, g \in GraphNodes : UCS(s, g)
    \/ \E h \in SomeHeuristics, s, g \in GraphNodes : AStar(h, s, g)
    \/ Discard

Spec == Init /\ [][Next]_vars

\* ------------------------------------------------------------------------
\* SpecUninformed: a Graph built by add_node and add_edge in any order,
\* searched by BFS and DFS
\* ------------------------------------------------------------------------
MaxLinks == 4                      \* distinct unordered pairs joined by an edge

UninformedNext ==
    \/ \E n \in Nodes : AddNode(n) /\ UNCHANGED history
    \/ \E a, b \in Nodes :
          /\ {a, b} \in edges_added \/ Cardinality(edges_added) < MaxLinks
          /\ AddEdge(a, b)
          /\ Counted(a, b)
    \/ \E s, g \in Nodes, strategy \in {"bfs", "dfs"} : Search(s, g, strategy)
    \/ Discard

SpecUninformed == Init /\ [][UninformedNext]_vars

\* ------------------------------------------------------------------------
\* SpecWeighted: weighted graphs loaded from an edge table in table order
\* (as create_weighted_ethiopia_graph does), searched by UCS and A*
\* ------------------------------------------------------------------------
EdgeTable == <<<<"A", "B">>, <<"A", "C">>, <<"B", "C">>, <<"B", "D">>, <<"C", "D">>,
               <<"A", "D">>>>
TableIndex(pair) == CHOOSE i \in 1..Len(EdgeTable) : Range(EdgeTable[i]) = pair
HValues == {1, 2}
Heuristics == UNION {[S -> HValues] : S \in SUBSET Nodes}
Start == "A"
Goal == "D"

\* graph.add_weighted_edge(city, neighbor, weight) for row i of the table
LoadWeightedEdge(i, cost) ==
    /\ Cardinality(edges_added) < MaxEdges
    /\ \A p \in edges_added : TableIndex(p) < i
    /\ AddWeightedEdge(EdgeTable[i][1], EdgeTable[i][2], cost)
    /\ Counted(EdgeTable[i][1], EdgeTable[i][2])

WeightedNext ==
    \/ \E i \in 1..Len(EdgeTable), c \in Costs : LoadWeightedEdge(i, c)
    \/ UCS(Start, Goal)
    \/ \E h \in Heuristics : AStar(h, Start, Goal)
    \/ Discard

SpecWeighted == Init /\ [][WeightedNext]_vars

\* ------------------------------------------------------------------------
\* SpecMultiGoal: weighted graphs loaded from the edge table, toured by
\* MultiGoalUCS from Start
\* ------------------------------------------------------------------------
Tolls == {0, 1}                    \* edge costs of the toured graphs
NodeOrder == <<"A", "B", "C", "D">>

\* The nodes of S as a list.
Listed(S) == SelectSeq(NodeOrder, LAMBDA n : n \in S)

\* The goals lists: every set of nodes as a list, and the lists of one or
\* two goals with the first goal repeated at the end. set(goals) forgets the
\* order of the list, so one list stands for each of its rearrangements.
GoalLists ==
    {Listed(S) : S \in SUBSET Nodes}
       \cup {Append(Listed(S), Listed(S)[1]) :
                S \in {T \in SUBSET Nodes : Cardinality(T) \in {1, 2}}}

MultiGoalNext ==
    \/ \E i \in 1..Len(EdgeTable), c \in Tolls : LoadWeightedEdge(i, c)
    \/ \E goals \in GoalLists : MultiGoal(Start, goals)
    \/ \E order \in Orders(frame.locals.unvisited_goals) : MultiGoalRound(order)
    \/ Discard

SpecMultiGoal == Init /\ [][MultiGoalNext]_vars

\* ------------------------------------------------------------------------
\* SpecMinimax: game trees built node by node, depth first (as
\* create_ethiopia_adversarial_game does), searched from the root
\* ------------------------------------------------------------------------
MaxGameNodes == 5                  \* GameNode objects constructed
Utilities == {0, 1, 2}              \* utilities of the terminal nodes
GameNames == <<"root", "a", "b", "c", "d", "e", "f", "g">>

\* The kinds of node constructed: GameNode(name, player) and
\* GameNode(name, utility=u), whose player is the default MAX.
NodeKinds == {<<"MAX", NoUtility>>, <<"MIN", NoUtility>>} \cup {<<"MAX", u>> : u \in Utilities}

\* The node a node was added to as a child.
ParentOf(tree, node) == CHOOSE q \in 1..Len(tree) : node \in Range(tree[q].children)

\* The node with the nodes above it, up to the root.
RECURSIVE Lineage(_, _)
Lineage(tree, node) ==
    IF node = 1 THEN {1} ELSE {node} \cup Lineage(tree, ParentOf(tree, node))

MinimaxNext ==
    \/ \E kind \in NodeKinds : NewRoot(GameNames[1], kind[1], kind[2])
    \/ \E parent \in 1..Len(game_tree), kind \in NodeKinds :
          /\ Len(game_tree) < MaxGameNodes
          /\ parent \in Lineage(game_tree, Len(game_tree))
          /\ AddChild(parent, GameNames[Len(game_tree) + 1], kind[1], kind[2])
    \/ MiniMaxSearch
    \/ Discard

SpecMinimax == Init /\ [][MinimaxNext]_vars

\* ------------------------------------------------------------------------
\* SpecTour: a WeightedGraph built by add_node and add_weighted_edge, toured
\* by MultiGoalUCS from any of its nodes
\* ------------------------------------------------------------------------
TourLists == {Listed(S) : S \in SUBSET GraphNodes}

TourNext ==
    \/ \E n \in GraphNodes : AddNode(n) /\ UNCHANGED history
    \/ \E a, b \in GraphNodes, c \in Tolls :
          Joinable(a, b) /\ AddWeightedEdge(a, b, c) /\ Counted(a, b)
    \/ \E s \in GraphNodes, goals \in TourLists : MultiGoal(s, goals)
    \/ \E order \in Orders(frame.locals.unvisited_goals) : MultiGoalRound(order)
    \/ Discard

SpecTour == Init /\ [][TourNext]_vars

\* ------------------------------------------------------------------------
\* SpecSteps: every search run loop iteration by loop iteration (minimax call
\* by call), on a weighted graph or on a game tree; SpecStepsFair lets a
\* running search go on
\* ------------------------------------------------------------------------
MaxRoads == 3                      \* distinct unordered pairs joined by an edge
MaxTreeNodes == 3                  \* GameNode objects constructed
StepHeuristics == [{"B", "C"} -> {0, 1}]
StepNodes == GraphNodes \cup {"D"}
StepKinds == {kind \in NodeKinds : kind[2] \in {NoUtility, 0, 1}}

\* A road joins two distinct cities of GraphNodes, or is the ring road of the
\* remaining city, which no road joins to another; no game tree is under
\* construction.
Roadworthy(node1, node2) ==
    /\ game_tree = <<>>
    /\ \/ node1 # node2 /\ {node1, node2} \subseteq GraphNodes
       \/ node1 = node2 /\ node1 \notin GraphNodes
    /\ \/ {node1, node2} \in edges_added
       \/ node1 = node2
       \/ Cardinality({e \in edges_added : Cardinality(e) = 2}) < MaxRoads

\* One iteration, call or return of the search that is running.
StepsRun ==
    \/ SearchStep
    \/ UCSStep
    \/ AStarStep
    \/ query.alg = "multi_goal"
          /\ \E order \in Orders(frame.locals.unvisited_goals) : MultiGoalRound(order)
    \/ MiniMaxStep

StepsNext ==
    \/ \E a, b \in StepNodes, c \in Tolls :
          Roadworthy(a, b) /\ AddWeightedEdge(a, b, c) /\ Counted(a, b)
    \/ \E kind \in StepKinds :
          /\ DOMAIN adjacency_list = {}
          /\ NewRoot(GameNames[1], kind[1], kind[2])
    \/ \E parent \in 1..Len(game_tree), kind \in StepKinds :
          /\ Len(game_tree) < MaxTreeNodes
          /\ parent \in Lineage(game_tree, Len(game_tree))
          /\ AddChild(parent, GameNames[Len(game_tree) + 1], kind[1], kind[2])
    \/ \E s, g \in StepNodes, strategy \in {"bfs", "dfs"} : SearchBegin(s, g, strategy)
    \/ \E s, g \in StepNodes : UCSBegin(s, g)
    \/ \E h \in StepHeuristics, s, g \in StepNodes : AStarBegin(h, s, g)
    \/ \E s \in GraphNodes, goals \in TourLists : MultiGoal(s, goals)
    \/ MiniMaxBegin
    \/ StepsRun
    \/ Discard

SpecSteps == Init /\ [][StepsNext]_vars

\* The interpreter goes on executing a search that has not returned.
SpecStepsFair == SpecSteps /\ WF_vars(StepsRun)

\* ------------------------------------------------------------------------
\* Claims about uniform-cost search and A* (SpecWeighted)
\* ------------------------------------------------------------------------
Reachable(wadj, start, goal) == WeightedPathsBetween(wadj, start, goal) # {}

ZeroHeuristic(heuristics) == \A n \in Nodes : get_heuristic(heuristics, n) = 0

\* h(n) <= the true shortest cost from n to goal, for every n that can reach goal.
Admissible(wadj, heuristics, goal) ==
    \A n \in Nodes :
        Reachable(wadj, n, goal) => get_heuristic(heuristics, n) <= ShortestCost(wadj, n, goal)

\* h(a) <= cost(a, b) + h(b) along every edge.
Consistent(wadj, heuristics) ==
    \A a \in DOMAIN wadj : \A i \in 1..Len(wadj[a]) :
        get_heuristic(heuristics, a) <= wadj[a][i][2] + get_heuristic(heuristics, wadj[a][i][1])

\* C2: on a weighted graph with non-negative costs and a reachable (start,
\* goal) pair, UCS and A* with the all-zero heuristic return the same
\* total_cost, and it is the least cost of any path from start to goal.
C2_UcsAStarZeroOptimal ==
    (/\ query.alg \in {"ucs", "astar"}
     /\ ZeroHeuristic(query.heuristics)
     /\ Reachable(weighted_adjacency, query.initial, query.goal))
    => /\ result.success
       /\ result.total_cost = ShortestCost(weighted_adjacency, query.initial, query.goal)
       /\ result.total_cost =
            ucs_search(weighted_adjacency, query.initial, query.goal).total_cost
       /\ result.total_cost =
            astar_search(weighted_adjacency, <<>>, query.initial, query.goal).total_cost

\* A UCS answer that is cheaper than the direct edge it had queued first.
C2_Witness ==
    /\ query.alg = "ucs"
    /\ result.success
    /\ Len(result.path) = 4
    /\ get_cost(weighted_adjacency, query.initial, query.goal) # NoCost
    /\ result.total_cost < get_cost(weighted_adjacency, query.initial, query.goal)

\* C3: with an admissible heuristic (consistent or not) A* returns the least
\* cost of any path from start to goal, whenever goal is reachable.
C3_AStarAdmissibleOptimal ==
    (/\ query.alg = "astar"
     /\ Reachable(weighted_adjacency, query.initial, query.goal)
     /\ Admissible(weighted_adjacency, query.heuristics, query.goal))
    => /\ result.success
       /\ result.total_cost = ShortestCost(weighted_adjacency, query.initial, query.goal)

\* An admissible, inconsistent heuristic under which B is queued at g = 2,
\* expanded, and then reached again at g = 1 through C: A-B 2, A-C 1, B-C 0,
\* B-D 2, h(C) = 2.
C3_Witness ==
    /\ query.alg = "astar"
    /\ query.heuristics = [n \in {"C"} |-> 2]
    /\ get_cost(weighted_adjacency, "A", "B") = 2
    /\ get_cost(weighted_adjacency, "A", "C") = 1
    /\ get_cost(weighted_adjacency, "B", "C") = 0
    /\ get_cost(weighted_adjacency, "B", "D") = 2
    /\ Cardinality(edges_added) = 4
    /\ Admissible(weighted_adjacency, query.heuristics, query.goal)
    /\ ~Consistent(weighted_adjacency, query.heuristics)
    /\ result = AStarResult(<<"A", "C", "B", "D">>, 3, TRUE)

\* ------------------------------------------------------------------------
\* Claims about the graph model (SpecGraph)
\* ------------------------------------------------------------------------
NoDuplicates(seq) == \A i, j \in 1..Len(seq) : i # j => seq[i] # seq[j]

\* C4: after any sequence of add_node, add_edge and add_weighted_edge calls
\* adjacency is symmetric: b is a neighbor of a iff a is one of b, also in
\* the weighted lists, and get_cost(a, b) = get_cost(b, a).
C4_AdjacencySymmetric ==
    \A a, b \in GraphNodes :
        /\ b \in Range(get_neighbors(adjacency_list, a))
             <=> a \in Range(get_neighbors(adjacency_list, b))
        /\ HasNeighbor(get_weighted_neighbors(weighted_adjacency, a), b)
             <=> HasNeighbor(get_weighted_neighbors(weighted_adjacency, b), a)
        /\ get_cost(weighted_adjacency, a, b) = get_cost(weighted_adjacency, b, a)

\* A pair was just added again, the other way round and with another cost,
\* on a graph that also has a self-loop.
C4_Witness ==
    /\ last.op = "add_weighted_edge" /\ last.readd /\ last.varied
    /\ \E n \in GraphNodes : get_cost(weighted_adjacency, n, n) # NoCost
    /\ \E a, b \in GraphNodes : a # b /\ get_cost(weighted_adjacency, a, b) # NoCost

\* C5: a call that repeats a pair already inserted (add_edge after add_edge,
\* add_weighted_edge after add_weighted_edge, in either orientation, with
\* any cost) changes nothing the graph stores; no neighbor sequence has an
\* entry twice, and get_cost is the cost of the pair's first insertion.
C5_InsertionIdempotent ==
    /\ (last.op \in {"add_edge", "add_weighted_edge"} /\ last.readd) => ~last.changed
    /\ \A n \in GraphNodes :
        /\ NoDuplicates(get_neighbors(adjacency_list, n))
        /\ NoDuplicates([i \in 1..Len(get_weighted_neighbors(weighted_adjacency, n)) |->
                           get_weighted_neighbors(weighted_adjacency, n)[i][1]])
    /\ \A pair \in DOMAIN first_cost :
        \A a, b \in pair :
            pair = {a, b} => get_cost(weighted_adjacency, a, b) = first_cost[pair][3]

\* An edge first inserted with one cost was just re-inserted the other way
\* round with another cost.
C5_Witness ==
    /\ last.op = "add_weighted_edge" /\ last.readd /\ last.varied /\ ~last.changed
    /\ Cardinality(DOMAIN first_cost) = 2

\* ------------------------------------------------------------------------
\* Claims about BFS (SpecUninformed)
\* ------------------------------------------------------------------------
IsBfs == query.alg = "travel" /\ Lower(query.strategy) = "bfs"
IsDfs == query.alg = "travel" /\ Lower(query.strategy) = "dfs"

\* C1: for distinct present nodes start and goal with goal reachable, BFS
\* succeeds with a path from start to goal whose number of edges is the least
\* of any path from start to goal.
C1_BfsFewestEdges ==
    (/\ IsBfs
     /\ query.initial # query.goal
     /\ query.initial \in DOMAIN adjacency_list
     /\ query.goal \in DOMAIN adjacency_list
     /\ PathsBetween(adjacency_list, query.initial, query.goal) # {})
    => /\ raised = "none"
       /\ result.success
       /\ result.path \in PathsBetween(adjacency_list, query.initial, query.goal)
       /\ Len(result.path) - 1 = MinEdgeCount(adjacency_list, query.initial, query.goal)

\* BFS answers with a two-edge path where DFS on the same graph takes three.
C1_Witness ==
    /\ IsBfs
    /\ result.success
    /\ Len(result.path) = 3
    /\ Len(depth_first_search(adjacency_list, query.initial, query.goal).path) = 4

\* ------------------------------------------------------------------------
\* Claims about all four pairwise searches (Spec)
\* ------------------------------------------------------------------------
IsPairwise == query.alg \in {"ucs", "astar"} \/ IsBfs \/ IsDfs
IsWeighted == query.alg \in {"ucs", "astar"}

\* A node is present in the graph when it is one of its nodes (get_all_nodes).
Present(node) == node \in DOMAIN adjacency_list

\* C6 as claimed: every pairwise search from a present node n to itself
\* returns path [n], success (and total_cost 0 where the result has one).
C6_SelfSearchSucceeds ==
    (IsPairwise /\ query.initial = query.goal /\ Present(query.initial))
    => /\ raised = "none"
       /\ result.success
       /\ result.path = <<query.initial>>
       /\ IsWeighted => result.total_cost = 0

\* C7: a pairwise search whose start or goal is not in the graph (also when
\* they are the same node) returns success = false and an empty path, raises
\* nothing and leaves the graph as it was.
C7_AbsentEndpointFails ==
    [][(/\ Idle
        /\ IsPairwise'
        /\ ~Present(query'.initial) \/ ~Present(query'.goal))
       => /\ raised' = "none"
          /\ ~result'.success
          /\ result'.path = <<>>
          /\ adjacency_list' = adjacency_list
          /\ weighted_adjacency' = weighted_adjacency]_vars

\* A* from a present node to an absent one, and UCS from an absent node to itself.
C7_Witness ==
    /\ IsWeighted
    /\ adjacency_list # <<>>
    /\ ~Present(query.goal)
    /\ query.initial = query.goal
    /\ ~result.success

\* C8 as claimed: for present start and goal each pairwise search succeeds
\* iff goal is reachable from start (along the edges the search follows), and
\* an unreachable goal gives success = false with an empty path.
C8_SuccessIffReachable ==
    (IsPairwise /\ Present(query.initial) /\ Present(query.goal))
    => LET reachable ==
               IF IsWeighted
               THEN WeightedPathsBetween(weighted_adjacency, query.initial, query.goal) # {}
               ELSE PathsBetween(adjacency_list, query.initial, query.goal) # {}
       IN  /\ result.success <=> reachable
           /\ ~reachable => result.path = <<>>

\* ------------------------------------------------------------------------
\* Claim about minimax (SpecMinimax)
\* ------------------------------------------------------------------------
SetMax(S) == CHOOSE x \in S : \A y \in S : x >= y

\* The backward-induction value of a node: its utility at a terminal, the
\* greatest value of its children at a MAX node, the least at a MIN node.
RECURSIVE InductionValue(_, _)
InductionValue(tree, node) ==
    LET below == {InductionValue(tree, c) : c \in Range(tree[node].children)}
    IN  IF tree[node].is_terminal THEN tree[node].utility
        ELSE IF tree[node].player = "MAX" THEN SetMax(below)
        ELSE SetMin(below)

\* The names from a node down to a terminal leaf, taking at every level the
\* first child in declared order that attains the value of the node.
RECURSIVE FirstBestPath(_, _)
FirstBestPath(tree, node) ==
    IF tree[node].is_terminal THEN <<tree[node].name>>
    ELSE LET kids == tree[node].children
             attains(i) == InductionValue(tree, kids[i]) = InductionValue(tree, node)
             first == CHOOSE i \in 1..Len(kids) :
                          attains(i) /\ \A j \in 1..(i - 1) : ~attains(j)
         IN  <<tree[node].name>> \o FirstBestPath(tree, kids[first])

\* Every non-terminal node has at least one child.
EveryChoiceHasAChild(tree) ==
    \A n \in 1..Len(tree) : tree[n].is_terminal \/ tree[n].children # <<>>

\* The node of a name (the names of a tree are distinct).
Named(tree, name) == CHOOSE n \in 1..Len(tree) : tree[n].name = name

IsMinimax == query.alg = "minimax"

\* C9: on a game tree in which every non-terminal node has at least one
\* child, MiniMax.search returns the backward-induction value of the root as
\* best_value and, as best_path, the names from the root to a terminal leaf
\* along the first child in declared order attaining the value at every
\* level; the utility of that leaf is best_value.
C9_MinimaxBackwardInduction ==
    (IsMinimax /\ EveryChoiceHasAChild(game_tree))
    => /\ result.best_value = InductionValue(game_tree, 1)
       /\ result.best_path = FirstBestPath(game_tree, 1)
       /\ LET leaf == game_tree[Named(game_tree, result.best_path[Len(result.best_path)])]
          IN  leaf.is_terminal /\ leaf.utility = result.best_value

\* A MAX root over a MIN node and a later terminal of the same value: the
\* path goes down through the MIN node, to its least leaf.
C9_Witness ==
    /\ IsMinimax
    /\ EveryChoiceHasAChild(game_tree)
    /\ Len(game_tree) = 5
    /\ game_tree[1].player = "MAX" /\ game_tree[1].children = <<2, 5>>
    /\ ~game_tree[2].is_terminal /\ game_tree[2].player = "MIN"
    /\ game_tree[2].children = <<3, 4>>
    /\ game_tree[3].utility = 1 /\ game_tree[4].utility = 0 /\ game_tree[5].utility = 0
    /\ result.best_value = 0
    /\ result.best_path = <<"root", "a", "c">>

\* ------------------------------------------------------------------------
\* Claim about the multi-goal tour (SpecMultiGoal)
\* ------------------------------------------------------------------------
IsMultiGoal == query.alg = "multi_goal"

\* The tour has returned.
Toured == IsMultiGoal /\ ~frame.running

\* The goals committed to so far, in order.
Committed == IF frame.running THEN frame.locals.visit_order ELSE result.visit_order

\* Where round k starts from, and the goals still unvisited in it.
LocationAt(k) == IF k = 1 THEN query.initial ELSE Committed[k - 1]
UnvisitedAt(k) == Range(query.goals) \ {Committed[j] : j \in 1..(k - 1)}

RECURSIVE LegsCost(_)
LegsCost(k) ==
    IF k = 0 THEN 0
    ELSE LegsCost(k - 1) + ShortestCost(weighted_adjacency, LocationAt(k), Committed[k])

\* C10: in every round of MultiGoalUCS.search the goal committed to is an
\* unvisited goal whose shortest-path cost from the current location is
\* least among the unvisited goals; no goal is visited twice; on success
\* total_cost is the sum of the shortest-path costs of the consecutive legs;
\* and with two goals of which one is strictly nearer to the start, that one
\* is visited first, then the other, at cost(start, A) + cost(A, B).
C10_GreedyNearestFirst ==
    IsMultiGoal =>
       /\ \A k \in 1..Len(Committed) :
             LET here == LocationAt(k)
                 least == ShortestCost(weighted_adjacency, here, Committed[k])
             IN  /\ Committed[k] \in UnvisitedAt(k)
                 /\ Reachable(weighted_adjacency, here, Committed[k])
                 /\ \A g \in UnvisitedAt(k) :
                       Reachable(weighted_adjacency, here, g)
                       => least <= ShortestCost(weighted_adjacency, here, g)
       /\ NoDuplicates(Committed)
       /\ (Toured /\ result.success)
          => /\ Range(result.visit_order) = Range(query.goals)
             /\ result.total_cost = LegsCost(Len(result.visit_order))
       /\ \A a, b \in Range(query.goals) :
             (/\ Toured
              /\ Range(query.goals) = {a, b}
              /\ query.initial \in DOMAIN weighted_adjacency
              /\ Reachable(weighted_adjacency, query.initial, a)
              /\ Reachable(weighted_adjacency, query.initial, b)
              /\ ShortestCost(weighted_adjacency, query.initial, a)
                    < ShortestCost(weighted_adjacency, query.initial, b))
             => /\ result.success
                /\ result.visit_order = <<a, b>>
                /\ result.total_cost = ShortestCost(weighted_adjacency, query.initial, a)
                                          + ShortestCost(weighted_adjacency, a, b)

\* A tour of three goals that visits them in another order than they were
\* listed in, each leg at a cost of its own.
C10_Witness ==
    /\ Toured
    /\ result.success
    /\ query.goals = <<"B", "C", "D">>
    /\ result.visit_order = <<"C", "D", "B">>
    /\ ShortestCost(weighted_adjacency, "A", "C") = 1
    /\ ShortestCost(weighted_adjacency, "A", "D") = 2
    /\ ShortestCost(weighted_adjacency, "C", "D") = 1
    /\ ShortestCost(weighted_adjacency, "D", "B") = 1
    /\ result.total_cost = 3

\* ------------------------------------------------------------------------
\* Claim about the failure of the multi-goal tour (SpecTour)
\* ------------------------------------------------------------------------
\* The goal is present in the graph, as the start is, and a path of weighted
\* edges leads from the start to it.
CanReach(start, goal) ==
    /\ Present(start)
    /\ Present(goal)
    /\ Reachable(weighted_adjacency, start, goal)

\* C11: MultiGoalUCS.search returns success=false exactly when some goal is
\* unreachable from, or absent relative to, the start; then every goal that
\* is reachable from the start is in visit_order, and complete_path and
\* total_cost are the route and the cost over the goals visited
\* ([initial] and 0 when none was reachable).
C11_FailureIffUnreachable ==
    Toured =>
       /\ ~result.success <=> \E g \in Range(query.goals) : ~CanReach(query.initial, g)
       /\ ~result.success =>
             /\ \A g \in Range(query.goals) :
                   CanReach(query.initial, g) => g \in Range(result.visit_order)
             /\ result.total_cost = LegsCost(Len(result.visit_order))
             /\ result.complete_path[1] = query.initial
             /\ result.complete_path[Len(result.complete_path)]
                   = LocationAt(Len(result.visit_order) + 1)
             /\ PathCost(weighted_adjacency, result.complete_path) = result.total_cost
             /\ result.visit_order = <<>>
                   => result.complete_path = <<query.initial>> /\ result.total_cost = 0

\* ------------------------------------------------------------------------
\* Claim about the strategy names (Spec)
\* ------------------------------------------------------------------------
\* The names that are 'bfs' or 'dfs' once case folded, among those passed.
FoldsToBfsOrDfs == {"bfs", "BFS", "dfs", "Dfs"}

\* C12: TravelEthiopiaSearch.search raises, returning no value and searching
\* nothing, for every strategy name that is neither 'bfs' nor 'dfs' after
\* case folding, whether or not start and goal are in the graph; for 'bfs'
\* and 'dfs' in any letter case it returns a result and never raises.
C12_UnknownStrategyRaises ==
    [][(Idle /\ query'.alg = "travel")
       => /\ UNCHANGED graph
          /\ IF query'.strategy \in FoldsToBfsOrDfs
             THEN raised' = "none" /\ DOMAIN result' = {"path", "success"}
             ELSE raised' = "ValueError" /\ DOMAIN result' = {}]_vars

\* An unknown name raises although an edge joins the start and the goal.
C12_Witness ==
    /\ query.alg = "travel"
    /\ query.strategy = "ucs"
    /\ raised = "ValueError"
    /\ query.initial # query.goal
    /\ PathsBetween(adjacency_list, query.initial, query.goal) # {}

\* ------------------------------------------------------------------------
\* Claim about determinism (SpecMultiGoal)
\* ------------------------------------------------------------------------
\* The dicts MultiGoalUCS.search can return from the locals st, over the
\* orders in which the set of unvisited goals can be iterated in each round.
RECURSIVE TourOutcomes(_, _)
TourOutcomes(wadj, st) ==
    UNION {LET out == multi_goal_round(wadj, order, st)
           IN  IF out.returned THEN {out.value} ELSE TourOutcomes(wadj, out.locals)
           : order \in Orders(st.unvisited_goals)}

\* C13: the algorithms are deterministic given their inputs; for
\* MultiGoalUCS.search the returned visit_order, complete_path and total_cost
\* do not depend on the order in which the set of unvisited goals is
\* iterated, even when two unvisited goals are equally cheap from the
\* current location.
C13_IterationOrderIrrelevant ==
    (IsMultiGoal /\ frame.running)
    => Cardinality(TourOutcomes(weighted_adjacency, frame.locals)) = 1

\* ------------------------------------------------------------------------
\* Claim about termination (SpecStepsFair)
\* ------------------------------------------------------------------------
\* C14: every search terminates: on a finite graph with non-negative edge
\* costs and a non-negative heuristic, BFS, DFS, UCS, A* and the multi-goal
\* tour that have entered their loop eventually return a result, and so does
\* minimax on a finite game tree.
C14_EverySearchReturns == frame.running ~> ~frame.running

\* A uniform-cost search between two nodes of the graph returned a failure:
\* it ran until its frontier was empty.
C14_Witness ==
    /\ query.alg = "ucs"
    /\ ~frame.running
    /\ query.initial \in DOMAIN weighted_adjacency
    /\ query.goal \in DOMAIN weighted_adjacency
    /\ DOMAIN result = {"path", "total_cost", "success"}
    /\ ~result.success


\* ------------------------------------------------------------------------
\* Claim about presence in uniform-cost search and A* (Spec)
\* ------------------------------------------------------------------------
\* C15 as claimed: on a WeightedGraph built by any sequence of add_node,
\* add_edge and add_weighted_edge, UCS and A* treat an absent start or goal
\* and start = goal as BFS and DFS do on the same graph: same success, same
\* path; in particular a node that only add_node or add_edge added is
\* present, and the search from it to itself succeeds with the path [n].
C15_PresenceAsUninformed ==
    IsWeighted
    => LET bfs == breadth_first_search(adjacency_list, query.initial, query.goal)
           dfs == depth_first_search(adjacency_list, query.initial, query.goal)
       IN  /\ (\/ ~Present(query.initial)
               \/ ~Present(query.goal)
               \/ query.initial = query.goal)
              => /\ result.success = bfs.success /\ result.path = bfs.path
                 /\ result.success = dfs.success /\ result.path = dfs.path
           /\ (/\ query.initial = query.goal
               /\ Present(query.initial)
               /\ query.initial \notin DOMAIN weighted_adjacency)
              => result.success /\ result.path = <<query.initial>>


\* ------------------------------------------------------------------------
\* Claims about the loops of the searches (SpecSteps)
\* ------------------------------------------------------------------------
IsRunning(alg) == frame.running /\ query.alg = alg

\* C16 as claimed: the entry A* pops next has the least f of its queue, and
\* of the entries of that f it is the one with the smallest insertion
\* counter, as in uniform-cost search.
C16_AStarTieBreakAsUcs ==
    (IsRunning("astar") /\ frame.locals.pq # {})
    => LET e == astar_heappop(frame.locals.pq)
       IN  \A other \in frame.locals.pq \ {e} :
               \/ e[1] < other[1]
               \/ e[1] = other[1] /\ e[3] < other[3]


\* ------------------------------------------------------------------------
\* Claim about depth-first search (SpecUninformed)
\* ------------------------------------------------------------------------
\* The recursive depth-first search of the claim: a node is marked when it is
\* entered, the search stops at the first arrival at the goal, and the
\* neighbors not yet marked are entered in stored order:
\* [found, path, visited].
RECURSIVE RecursiveVisit(_, _, _, _, _)
RECURSIVE RecursiveFor(_, _, _, _, _, _)
RecursiveVisit(adj, goal, node, path, visited) ==
    IF node = goal
    THEN [found |-> TRUE, path |-> path, visited |-> visited \cup {node}]
    ELSE RecursiveFor(adj, goal, get_neighbors(adj, node), 1, path, visited \cup {node})

RecursiveFor(adj, goal, nbrs, i, path, visited) ==
    IF i > Len(nbrs) THEN [found |-> FALSE, path |-> <<>>, visited |-> visited]
    ELSE IF nbrs[i] \in visited THEN RecursiveFor(adj, goal, nbrs, i + 1, path, visited)
    ELSE LET below == RecursiveVisit(adj, goal, nbrs[i], Append(path, nbrs[i]), visited)
         IN  IF below.found THEN below
             ELSE RecursiveFor(adj, goal, nbrs, i + 1, path, below.visited)

RecursiveDfs(adj, initial, goal) == RecursiveVisit(adj, goal, initial, <<initial>>, {})

\* C17: between present nodes the stack-based depth-first search succeeds
\* exactly when the recursive one finds the goal, and returns the same path.
C17_StackDfsAsRecursive ==
    (IsDfs /\ Present(query.initial) /\ Present(query.goal))
    => LET recursive == RecursiveDfs(adjacency_list, query.initial, query.goal)
       IN  /\ raised = "none"
           /\ result.success = recursive.found
           /\ result.path = recursive.path

\* DFS reached a neighbor of the start by a longer way round: the entry the
\* start pushed for the goal was left on the stack.
C17_Witness ==
    /\ IsDfs
    /\ result.success
    /\ Len(result.path) >= 3
    /\ query.goal \in Range(get_neighbors(adjacency_list, query.initial))
    /\ result.path = RecursiveDfs(adjacency_list, query.initial, query.goal).path


\* C18: across every iteration of the loop of uniform-cost search that does
\* not return, the entries of visited stay as they are, every entry is the
\* least cost of a path from the start to its node, a popped entry of a node
\* already in visited is discarded (nothing but the queue changes, by that
\* entry), and a popped entry of another node adds that node alone, at the
\* entry's cost; only then are entries queued, so no node is expanded twice.
C18_VisitedIsFinal ==
    [][(IsRunning("ucs") /\ frame'.running)
       => LET st == frame.locals
              next == frame'.locals
              e == ucs_heappop(st.pq)
              city == e[3]
          IN  /\ \A n \in DOMAIN st.visited :
                     n \in DOMAIN next.visited /\ next.visited[n] = st.visited[n]
              /\ \A n \in DOMAIN next.visited :
                     next.visited[n] = ShortestCost(weighted_adjacency, query.initial, n)
              /\ city \in DOMAIN st.visited => next = [st EXCEPT !.pq = @ \ {e}]
              /\ city \notin DOMAIN st.visited
                 => /\ DOMAIN next.visited = DOMAIN st.visited \cup {city}
                    /\ next.visited[city] = e[1]
              /\ next.pq \ st.pq # {} => city \notin DOMAIN st.visited]_vars

\* The loop has settled a node whose dearer entry, queued before, is the next
\* to be popped.
C18_Witness ==
    /\ IsRunning("ucs")
    /\ frame.locals.pq # {}
    /\ LET e == ucs_heappop(frame.locals.pq)
       IN  /\ e[3] \in DOMAIN frame.locals.visited
           /\ frame.locals.visited[e[3]] < e[1]


\* The nodes an edge leads to from a node, in the structure the running
\* search follows.
Onward(node) ==
    IF IsWeighted
    THEN {e[1] : e \in Range(get_weighted_neighbors(weighted_adjacency, node))}
    ELSE Range(get_neighbors(adjacency_list, node))

\* A path from the start of the query to a node: along edges, no node twice.
WellFormed(path, node) ==
    /\ path # <<>>
    /\ path[1] = query.initial
    /\ path[Len(path)] = node
    /\ \A i \in 1..(Len(path) - 1) : path[i + 1] \in Onward(path[i])
    /\ \A i, j \in 1..Len(path) : path[i] = path[j] => i = j

\* The entries of the frontier of the running search: [node, path, cost],
\* the cost being that of the path where the entry carries none.
Frontier ==
    IF IsBfs THEN {[node |-> e[1], path |-> e[2],
                    cost |-> PathCost(weighted_adjacency, e[2])] :
                   e \in Range(frame.locals.queue)}
    ELSE IF IsDfs THEN {[node |-> e[1], path |-> e[2],
                         cost |-> PathCost(weighted_adjacency, e[2])] :
                        e \in Range(frame.locals.stack)}
    ELSE IF query.alg = "ucs"
    THEN {[node |-> e[3], path |-> e[4], cost |-> e[1]] : e \in frame.locals.pq}
    ELSE {[node |-> e[4], path |-> e[5], cost |-> e[2]] : e \in frame.locals.pq}

\* C19: the path of every successful result of BFS, DFS, UCS and A* starts at
\* the start, ends at the goal, goes along edges and has no node twice, and
\* for UCS and A* total_cost is the sum of its edge costs; while a search
\* runs, every entry of its queue or stack is such a path to the entry's own
\* node, at that cost.
C19_PathsWellFormed ==
    /\ (IsPairwise /\ ~frame.running /\ result # NoResult /\ result.success)
       => /\ WellFormed(result.path, query.goal)
          /\ IsWeighted => result.total_cost = PathCost(weighted_adjacency, result.path)
    /\ (IsPairwise /\ frame.running)
       => \A entry \in Frontier :
              /\ WellFormed(entry.path, entry.node)
              /\ entry.cost = PathCost(weighted_adjacency, entry.path)

\* Uniform-cost search holds two entries of one node, the dearer by one edge
\* and the cheaper by two.
C19_Witness ==
    /\ IsRunning("ucs")
    /\ \E direct, round \in Frontier :
           /\ direct.node = round.node
           /\ Len(direct.path) = 2
           /\ Len(round.path) = 3
           /\ round.cost < direct.cost

====
